---- MODULE Spec2Model ----
(***************************************************************************)
(* GeoFLow groundwater information service.                                *)
(*                                                                         *)
(*   src/init.py  the bulk loader: CSV rows upserted into the groundwater  *)
(*                table (INSERT OR REPLACE on the UNIQUE location column)  *)
(*   src/main.py  the HTTP handlers: /api/query (keyword classification,   *)
(*                alias lookup, generative fallback),                      *)
(*                /api/query_by_location (reverse geocoding) and           *)
(*                /api/report/{location}                                   *)
(*                                                                         *)
(* Strings are TLA+ strings, that is sequences of characters: Python's     *)
(* `a in b` on strings is substring containment and is modelled character  *)
(* by character.  The Tamil and Telugu texts of the translation table are  *)
(* written as ASCII stand-ins that keep each template's placeholders and   *)
(* their positions.  REAL columns are kept in tenths (124 is 12.4).        *)
(***************************************************************************)
EXTENDS Integers, Sequences, FiniteSets, TLC

VARIABLES
    store,      \* groundwater.db as committed: [rows, seq], the rows of table
                \* groundwater and its AUTOINCREMENT counter
    table,      \* the same inside the open transaction of init.py
    lpc,        \* position of init.py: "ready", "loading", "done", "crashed"
    pc,         \* position of the request being served
    endpoint,   \* "query", "query_by_location", "report" or "none"
    raw,        \* query_in.message, resp. the {location} path parameter
    msg,        \* handle_query's msg (normalized message)
    lang_in,    \* query_in.language
    language,   \* the handlers' local variable language
    location,   \* handle_query's location / handle_location_query's location_name
    calls,      \* the collaborators called so far by this request, in order,
                \* each with whether the call ended in an exception
    resp        \* the response of the request

vars == <<store, table, lpc, pc, endpoint, raw, msg, lang_in,
          language, location, calls, resp>>


----------------------------------------------------------------------------
(* Bounds of the model *)

\* the words of one generated message
MaxWords == 2
\* the rows inserted into the table over all runs of the loader
MaxRows == 3

----------------------------------------------------------------------------
(* Python values and string methods *)

None == "<None>"

\* Python truthiness of an optional string: None and "" are false
Truthy(x) == x # None /\ x # ""

UpperLetters == "ABCDEFGHIJKLMNOPQRSTUVWXYZ"
LowerLetters == "abcdefghijklmnopqrstuvwxyz"

\* each upper-case letter with its lower-case letter
LowerMap ==
    [c \in {SubSeq(UpperLetters, i, i) : i \in 1..Len(UpperLetters)} |->
        LET i == CHOOSE j \in 1..Len(UpperLetters) : SubSeq(UpperLetters, j, j) = c
        IN  SubSeq(LowerLetters, i, i)]

LowerChar(c) == IF c \in DOMAIN LowerMap THEN LowerMap[c] ELSE c

RECURSIVE Lower(_)
\* str.lower()
Lower(s) ==
    IF Len(s) = 0 THEN ""
    ELSE LowerChar(SubSeq(s, 1, 1)) \o Lower(SubSeq(s, 2, Len(s)))

RECURSIVE LStrip(_)
LStrip(s) ==
    IF Len(s) > 0 /\ SubSeq(s, 1, 1) = " " THEN LStrip(SubSeq(s, 2, Len(s))) ELSE s

RECURSIVE RStrip(_)
RStrip(s) ==
    IF Len(s) > 0 /\ SubSeq(s, Len(s), Len(s)) = " "
    THEN RStrip(SubSeq(s, 1, Len(s) - 1)) ELSE s

\* str.strip()
Strip(s) == RStrip(LStrip(s))

\* `sub in s` on Python strings
Contains(sub, s) ==
    \E i \in 1..(Len(s) - Len(sub) + 1) : SubSeq(s, i, i + Len(sub) - 1) = sub

\* any(k in msg for k in tokens)
ContainsAny(tokens, s) == \E i \in DOMAIN tokens : Contains(tokens[i], s)

\* str() of a float held in tenths
FloatStr(v) == ToString(v \div 10) \o "." \o ToString(v % 10)

RECURSIVE Format(_, _)
\* str.format(**args) on a template given as its segments; a segment that is
\* a placeholder is replaced by its argument
Format(template, args) ==
    IF template = <<>> THEN ""
    ELSE LET h == Head(template)
         IN  (IF h \in DOMAIN args THEN args[h] ELSE h) \o Format(Tail(template), args)

----------------------------------------------------------------------------
(* The static tables of src/main.py *)

\* location_aliases, in the dict's insertion order: <<alias, db_location>>
location_aliases == <<
    <<"salem", "Salem">>,
    <<"salem (extended)", "Salem (Extended)">>,
    <<"puducherry", "Puducherry">>,
    <<"kumbakonam", "Kumbakonam Town">>,
    <<"kumbakonam town", "Kumbakonam Town">>,
    <<"kanchipuram", "Kanchipuram">>,
    <<"kanchipuram town", "Kanchipuram Town">>,
    <<"karaikal", "Karaikal">>,
    <<"karaikal town", "Karaikal Town">>,
    <<"viluppuram", "Viluppuram">>,
    <<"villupuram", "Villupuram">> >>

\* translations["en"]; the bullet of the full_report lines is written "* "
translations_en == [
    greeting |-> <<"Hello! I can tell you about groundwater level, quality (pH/TDS/COD/BOD), and irrigation status. Just ask, e.g., 'groundwater level in Kuppam'">>,
    no_location |-> <<"Please specify a location (example: 'groundwater level in Kuppam')">>,
    no_data |-> <<"No data found for location: ", "{location}">>,
    level_reply |-> <<"Groundwater level in ", "{location}", ": ", "{level}", " m. Last updated: ", "{date}", ".">>,
    quality_reply |-> <<"Water quality in ", "{location}", ": pH is ", "{ph}", ", TDS is ", "{tds}", " mg/L, COD is ", "{cod}", " mg/L, and BOD is ", "{bod}", " mg/L. Last updated: ", "{date}", ".">>,
    status_reply |-> <<"For ", "{location}", ", the water is: ", "{status}", ". Last updated: ", "{date}", ".">>,
    full_report_title |-> <<"Here is the full report for ", "{location}", ":">>,
    full_report_level |-> <<"* Groundwater Level: ", "{level}", " m.">>,
    full_report_ph |-> <<"* pH: ", "{ph}", ".">>,
    full_report_tds |-> <<"* TDS: ", "{tds}", " mg/L.">>,
    full_report_cod |-> <<"* COD: ", "{cod}", " mg/L.">>,
    full_report_bod |-> <<"* BOD: ", "{bod}", " mg/L.">>,
    full_report_status |-> <<"* Status: ", "{status}", ".">>,
    full_report_date |-> <<"* Last updated: ", "{date}", ".">>,
    unknown_request |-> <<"I'm sorry, I don't understand that request. Could you please rephrase?">>,
    tds_def |-> <<"TDS stands for Total Dissolved Solids. It is a measure of the total concentration of dissolved substances in water, which affects its taste and quality.">>,
    bod_def |-> <<"BOD stands for Biochemical Oxygen Demand. It measures the amount of oxygen consumed by microorganisms to decompose organic matter in water.">>,
    cod_def |-> <<"COD stands for Chemical Oxygen Demand. It measures the amount of oxygen required to chemically break down pollutants in water.">>,
    ph_def |-> <<"pH is a measure of how acidic or alkaline (basic) the water is. A pH of 7 is neutral, while lower values are acidic and higher values are alkaline.">>,
    def_error |-> <<"I can define TDS, BOD, COD, or pH for you. Please ask for a specific term.">> ]

\* translations["ta"] (ASCII stand-ins for the Tamil text)
translations_ta == [
    greeting |-> <<"[ta] Vanakkam! (pH/TDS/COD/BOD)">>,
    no_location |-> <<"[ta] oru idaththai kurippidavum">>,
    no_data |-> <<"{location}", " [ta] idaththirkaana tharavu kidaikkavillai">>,
    level_reply |-> <<"{location}", " [ta] il nilaththadi neer mattam: ", "{level}", " [ta] mee. kadaisiyaaga: ", "{date}", ".">>,
    quality_reply |-> <<"{location}", " [ta] il neer tharam: pH ", "{ph}", ", TDS ", "{tds}", " [ta] mg/L, COD ", "{cod}", " [ta] mg/L, BOD ", "{bod}", " [ta] mg/L. kadaisiyaaga: ", "{date}", ".">>,
    status_reply |-> <<"{location}", " [ta] il ulla neer: ", "{status}", ". [ta] kadaisiyaaga: ", "{date}", ".">>,
    full_report_title |-> <<"{location}", " [ta] kuriththa muzhu arikkai:">>,
    full_report_level |-> <<"* [ta] nilaththadi neer mattam: ", "{level}", " [ta] mee.">>,
    full_report_ph |-> <<"* pH: ", "{ph}", ".">>,
    full_report_tds |-> <<"* TDS: ", "{tds}", " [ta] mg/L.">>,
    full_report_cod |-> <<"* COD: ", "{cod}", " [ta] mg/L.">>,
    full_report_bod |-> <<"* BOD: ", "{bod}", " [ta] mg/L.">>,
    full_report_status |-> <<"* [ta] nilai: ", "{status}", ".">>,
    full_report_date |-> <<"* [ta] kadaisiyaaga: ", "{date}", ".">>,
    unknown_request |-> <<"[ta] mannikkavum, antha korikkai puriyavillai">>,
    tds_def |-> <<"[ta] TDS enbathu ...">>,
    bod_def |-> <<"[ta] BOD enbathu ...">>,
    cod_def |-> <<"[ta] COD enbathu ...">>,
    ph_def |-> <<"[ta] pH enbathu ...">>,
    def_error |-> <<"[ta] TDS, BOD, COD allathu pH">> ]

\* translations["te"] (ASCII stand-ins for the Telugu text)
translations_te == [
    greeting |-> <<"[te] Namaskaram! (pH/TDS/COD/BOD)">>,
    no_location |-> <<"[te] oka sthaanaanni perkonandi">>,
    no_data |-> <<"{location}", " [te] sthaanaaniki data kanugonabadaledu">>,
    level_reply |-> <<"{location}", " [te] lo bhoogarbha jalaala sthaayi: ", "{level}", " [te] mee. chivarigaa: ", "{date}", ".">>,
    quality_reply |-> <<"{location}", " [te] lo neeti naanyata: pH ", "{ph}", ", TDS ", "{tds}", " mg/L, COD ", "{cod}", " mg/L, [te] BOD ", "{bod}", " mg/L. [te] chivarigaa: ", "{date}", ".">>,
    status_reply |-> <<"{location}", " [te] kosam, neeru: ", "{status}", ". [te] chivarigaa: ", "{date}", ".">>,
    full_report_title |-> <<"{location}", " [te] kosam poorti nivedika:">>,
    full_report_level |-> <<"* [te] bhoogarbha jalaala sthaayi: ", "{level}", " [te] mee.">>,
    full_report_ph |-> <<"* pH: ", "{ph}", ".">>,
    full_report_tds |-> <<"* TDS: ", "{tds}", " mg/L.">>,
    full_report_cod |-> <<"* COD: ", "{cod}", " mg/L.">>,
    full_report_bod |-> <<"* BOD: ", "{bod}", " mg/L.">>,
    full_report_status |-> <<"* [te] sthiti: ", "{status}", ".">>,
    full_report_date |-> <<"* [te] chivarigaa: ", "{date}", ".">>,
    unknown_request |-> <<"[te] kshaminchandi, aa abhyarthana artham kaaledu">>,
    tds_def |-> <<"[te] TDS ante ...">>,
    bod_def |-> <<"[te] BOD ante ...">>,
    cod_def |-> <<"[te] COD ante ...">>,
    ph_def |-> <<"[te] pH anedi ...">>,
    def_error |-> <<"[te] TDS, BOD, COD leda pH">> ]

\* the translations dict
translations == [l \in {"en", "ta", "te"} |->
    CASE l = "en" -> translations_en
      [] l = "ta" -> translations_ta
      [] l = "te" -> translations_te]

\* the fixed string get_llm_response returns when the call raises
LlmApology == "I am unable to provide a general response at this moment."

\* the keyword lists of handle_query
GreetingTokens == <<"hi", "hello", "hey">>
DefinitionTriggers == <<"what is", "define", "meaning of", "what does">>
LevelTokens == <<"level", "water table">>
QualityTokens == <<"ph", "tds", "cod", "bod", "quality">>
StatusTokens == <<"status", "irrigation", "drinking", "recommended">>

----------------------------------------------------------------------------
(* src/init.py: the bulk loader *)

Row(loc, level, ph, tds, cod, bod, status, date, wellformed) ==
    [location |-> loc, groundwater_level |-> level, pH |-> ph, TDS |-> tds,
     COD |-> cod, BOD |-> bod, status |-> status, last_updated |-> date,
     wellformed |-> wellformed]

\* the rows a CSV file may hold; wellformed is whether float() and int()
\* accept the row's numeric cells
CsvRows == {
    Row("Salem", 124, 72, 450, 105, 31, "safe for drinking", "2024-01-01", TRUE),
    Row("Salem", 131, 70, 470, 110, 35, "safe for irrigation", "2024-02-01", TRUE),
    Row("salem", 98, 68, 610, 150, 42, "not recommended", "2023-12-01", TRUE),
    Row("Karaikal", 57, 75, 380, 90, 28, "safe for drinking", "2024-01-15", TRUE),
    Row("Puducherry", 0, 0, 0, 0, 0, "", "", FALSE) }

\* a fresh database after executescript(schema): the empty table
EmptyDb == [rows |-> {}, seq |-> 0]

\* one cur.execute("INSERT OR REPLACE ..."): the UNIQUE constraint on location
\* (default BINARY collation) removes the row with the very same location text,
\* and the new row takes the next AUTOINCREMENT id
InsertOrReplace(db, r) ==
    [rows |-> {x \in db.rows : x.location # r.location} \cup
              {[id |-> db.seq + 1, location |-> r.location,
                groundwater_level |-> r.groundwater_level, pH |-> r.pH,
                TDS |-> r.TDS, COD |-> r.COD, BOD |-> r.BOD,
                status |-> r.status, last_updated |-> r.last_updated]},
     seq |-> db.seq + 1]

RECURSIVE LoadCsv(_, _)
\* a whole run of init.py on a CSV of well-formed rows, committed
LoadCsv(db, csv) ==
    IF csv = <<>> THEN db ELSE LoadCsv(InsertOrReplace(db, Head(csv)), Tail(csv))

\* sqlite3.connect and executescript(schema): CREATE TABLE IF NOT EXISTS
LoaderStart ==
    /\ lpc \in {"ready", "done", "crashed"}
    /\ table' = store
    /\ lpc' = "loading"
    /\ UNCHANGED <<store, pc, endpoint, raw, msg, lang_in, language, location, calls, resp>>

\* one turn of the for loop over the DictReader, on a well-formed row
LoadRow(r) ==
    /\ lpc = "loading"
    /\ r.wellformed
    /\ table.seq < MaxRows
    /\ table' = InsertOrReplace(table, r)
    /\ UNCHANGED <<store, lpc, pc, endpoint, raw, msg, lang_in, language, location, calls, resp>>

\* float() or int() raises ValueError on a cell: the script dies before
\* conn.commit() and the open transaction is lost
LoaderCrash(r) ==
    /\ lpc = "loading"
    /\ ~r.wellformed
    /\ table' = store
    /\ lpc' = "crashed"
    /\ UNCHANGED <<store, pc, endpoint, raw, msg, lang_in, language, location, calls, resp>>

\* end of the CSV: conn.commit(), conn.close()
LoaderCommit ==
    /\ lpc = "loading"
    /\ store' = table
    /\ lpc' = "done"
    /\ UNCHANGED <<table, pc, endpoint, raw, msg, lang_in, language, location, calls, resp>>

----------------------------------------------------------------------------
(* src/main.py: helpers of the handlers *)

\* the possible values of rows[0] if rows else None, as a list of at most one
\* row: the SELECT compares lower(location) and has no ORDER BY, so with
\* several matching rows any of them may come first
get_record_by_location(db, loc) ==
    LET rows == {x \in db.rows : Lower(x.location) = Lower(loc)}
    IN  IF rows = {} THEN {<<>>} ELSE {<<x>> : x \in rows}

\* what model.generate_content may do: return a text or raise
LlmOutcomes == {[raises |-> FALSE, text |-> "Groundwater is water held underground."],
                [raises |-> TRUE, text |-> None]}

\* get_llm_response without its try/except: no text comes back when the call raises
get_llm_response_NoCatch(outcome) == outcome.text

\* the try/except of get_llm_response
get_llm_response(outcome) ==
    IF outcome.raises THEN LlmApology ELSE outcome.text

\* the keyword arguments the templates are formatted with
RecArgs(rec) ==
    [x \in {"{location}", "{level}", "{ph}", "{tds}", "{cod}", "{bod}", "{status}", "{date}"} |->
        CASE x = "{location}" -> rec.location
          [] x = "{level}" -> FloatStr(rec.groundwater_level)
          [] x = "{ph}" -> FloatStr(rec.pH)
          [] x = "{tds}" -> ToString(rec.TDS)
          [] x = "{cod}" -> FloatStr(rec.COD)
          [] x = "{bod}" -> FloatStr(rec.BOD)
          [] x = "{status}" -> rec.status
          [] x = "{date}" -> rec.last_updated]

generate_reply(rec, lang, query_type) ==
    LET t == translations[lang]
        a == RecArgs(rec)
    IN  IF query_type = "level" THEN Format(t.level_reply, a)
        ELSE IF query_type = "quality" THEN Format(t.quality_reply, a)
        ELSE IF query_type = "status" THEN Format(t.status_reply, a)
        ELSE Format(t.full_report_title, a) \o "\n" \o
             Format(t.full_report_level, a) \o "\n" \o
             Format(t.full_report_ph, a) \o "\n" \o
             Format(t.full_report_tds, a) \o "\n" \o
             Format(t.full_report_cod, a) \o "\n" \o
             Format(t.full_report_bod, a) \o "\n" \o
             Format(t.full_report_status, a) \o "\n" \o
             Format(t.full_report_date, a)

\* what gmaps.reverse_geocode may do: raise, or return a list of results, each
\* given by str(component['address_components']), or KeyError when the result
\* has no such key
KeyError == "<KeyError>"

GeoOutcomes == {
    [raises |-> TRUE, results |-> <<>>],
    [raises |-> FALSE, results |-> <<>>],
    [raises |-> FALSE, results |-> <<"[{'long_name': 'Salem', 'types': ['locality']}]">>],
    [raises |-> FALSE, results |-> <<"[{'long_name': 'Chennai', 'types': ['locality']}]",
                                     "[{'long_name': 'Karaikal Town', 'types': ['locality']}]">>],
    [raises |-> FALSE, results |-> <<"[{'long_name': 'Kumbakonam', 'types': ['locality']}]">>],
    [raises |-> FALSE, results |-> <<KeyError, "[{'long_name': 'Salem', 'types': ['locality']}]">>] }

RECURSIVE MatchAlias(_, _)
\* the inner loop of find_location_from_coords over location_aliases.items()
MatchAlias(text, i) ==
    IF i > Len(location_aliases) THEN None
    ELSE IF Contains(Lower(location_aliases[i][1]), Lower(text)) THEN location_aliases[i][2]
    ELSE MatchAlias(text, i + 1)

RECURSIVE MatchComponents(_, _)
\* the outer loop of find_location_from_coords over the results
MatchComponents(results, i) ==
    IF i > Len(results) THEN None
    ELSE IF results[i] = KeyError THEN None
    ELSE LET hit == MatchAlias(results[i], 1)
         IN  IF hit # None THEN hit ELSE MatchComponents(results, i + 1)

find_location_from_coords(outcome) ==
    IF outcome.raises THEN None
    ELSE IF outcome.results = <<>> THEN None
    ELSE MatchComponents(outcome.results, 1)

\* msg = query_in.message.lower().strip()
Normalize(m) == Strip(Lower(m))

\* the language code used as sent, without the default
EffectiveLanguage_NoDefault(l) == l

\* language = query_in.language if query_in.language in translations else "en"
EffectiveLanguage(l) == IF l \in DOMAIN translations THEN l ELSE "en"

RECURSIVE ResolveAlias_NoBreak(_, _)
\* the alias loop without its break: the last matching alias wins
ResolveAlias_NoBreak(m, i) ==
    IF i > Len(location_aliases) THEN None
    ELSE LET later == ResolveAlias_NoBreak(m, i + 1)
         IN  IF later # None THEN later
             ELSE IF Contains(location_aliases[i][1], m) THEN location_aliases[i][2]
             ELSE None

RECURSIVE ResolveAlias(_, _)
\* step 2 of handle_query: the loop over location_aliases.items() with its break
ResolveAlias(m, i) ==
    IF i > Len(location_aliases) THEN None
    ELSE IF Contains(location_aliases[i][1], m) THEN location_aliases[i][2]
    ELSE ResolveAlias(m, i + 1)

\* the alias loop moved before the keyword checks
QueryBranch_AliasFirst(m) ==
    IF Truthy(ResolveAlias(m, 1)) THEN "data"
    ELSE IF ContainsAny(GreetingTokens, m) THEN "greeting"
    ELSE IF ContainsAny(DefinitionTriggers, m) THEN "definition"
    ELSE "fallback"

\* the definition check left out
QueryBranch_NoDefinition(m) ==
    IF ContainsAny(GreetingTokens, m) THEN "greeting"
    ELSE IF Truthy(ResolveAlias(m, 1)) THEN "data"
    ELSE "fallback"

\* the branch handle_query takes on msg, in the order of its if statements
QueryBranch(m) ==
    IF ContainsAny(GreetingTokens, m) THEN "greeting"
    ELSE IF ContainsAny(DefinitionTriggers, m) THEN "definition"
    ELSE IF Truthy(ResolveAlias(m, 1)) THEN "data"
    ELSE "fallback"

\* the term checks in the order pH, COD, BOD, TDS
DefinitionKey_PhFirst(m) ==
    IF Contains("ph", m) THEN "ph_def"
    ELSE IF Contains("cod", m) THEN "cod_def"
    ELSE IF Contains("bod", m) THEN "bod_def"
    ELSE IF Contains("tds", m) THEN "tds_def"
    ELSE "def_error"

\* the template the definition branch returns
DefinitionKey(m) ==
    IF Contains("tds", m) THEN "tds_def"
    ELSE IF Contains("bod", m) THEN "bod_def"
    ELSE IF Contains("cod", m) THEN "cod_def"
    ELSE IF Contains("ph", m) THEN "ph_def"
    ELSE "def_error"

\* the quality tokens tested before the level tokens
QueryType_QualityFirst(m) ==
    IF ContainsAny(QualityTokens, m) THEN "quality"
    ELSE IF ContainsAny(LevelTokens, m) THEN "level"
    ELSE IF ContainsAny(StatusTokens, m) THEN "status"
    ELSE "full"

\* query_type of handle_query
QueryType(m) ==
    IF ContainsAny(LevelTokens, m) THEN "level"
    ELSE IF ContainsAny(QualityTokens, m) THEN "quality"
    ELSE IF ContainsAny(StatusTokens, m) THEN "status"
    ELSE "full"

----------------------------------------------------------------------------
(* Responses.  branch names the return statement that produced the response *)

NoResp == [status |-> 0, reply |-> None, location |-> None, branch |-> "none"]

\* an exception that leaves the handler: the framework answers 500
Fault == [status |-> 500, reply |-> None, location |-> None, branch |-> "fault"]

\* return {"reply": translations[language][key].format(**args)}; the lookup
\* translations[language] raises KeyError for a language not in the table
Templated(lang, key, args, branch) ==
    IF lang \in DOMAIN translations
    THEN [status |-> 200, reply |-> Format(translations[lang][key], args),
          location |-> None, branch |-> branch]
    ELSE Fault

\* return {"reply": generate_reply(rec, language, query_type), "location": rec['location']}
Report(rec, lang, query_type) ==
    IF lang \in DOMAIN translations
    THEN [status |-> 200, reply |-> generate_reply(rec, lang, query_type),
          location |-> rec.location, branch |-> query_type]
    ELSE Fault

NoArgs == [x \in {} |-> ""]
Call(to, raised) == [to |-> to, raised |-> raised]
LocationArg(loc) == [x \in {"{location}"} |-> loc]

----------------------------------------------------------------------------
(* Inputs of the requests *)

\* the words generated messages are made of
Words == {"hi", "hello", "what is", "define", "tds", "bod", "cod", "ph",
          "salem", "(extended)", "puducherry", "kumbakonam", "kanchipuram",
          "karaikal", "town", "villupuram",
          "level", "water table", "quality", "status"}

RECURSIVE WordMessages(_)
\* the messages of at most n words, joined by single spaces
WordMessages(n) ==
    IF n = 0 THEN {""}
    ELSE LET shorter == WordMessages(n - 1)
         IN  shorter \cup {IF m = "" THEN w ELSE m \o " " \o w : m \in shorter, w \in Words}

\* further messages: upper case, padding, longer sentences
ExtraMessages == {
    "hello", "Hello", "  HI there ", "hey", "hey salem", "rain",
    "viluppuram", "quality in viluppuram",
    "groundwater level in Salem",
    "Groundwater Level in SALEM ",
    "what is tds",
    "What is the pH and BOD of water",
    "define cod and bod and tds",
    "meaning of cod or ph",
    "what does bod mean in salem",
    "define groundwater in karaikal",
    "define cod and tds for salem",
    "status of kumbakonam",
    "water table and quality status of karaikal",
    "water quality and irrigation status for karaikal",
    "is puducherry water recommended for drinking",
    "irrigation near karaikal town",
    "report for salem (extended)",
    "tell me about rain" }

Messages == WordMessages(MaxWords) \cup ExtraMessages

\* language codes a client may send
Languages == {"en", "ta", "te", "fr"}

\* {location} path parameters of /api/report
ReportLocations == {"Salem", "SALEM", "salem", "Karaikal", "UnknownPlace"}

----------------------------------------------------------------------------
(* src/main.py: the handlers *)

\* POST /api/query, up to the first call of a collaborator: normalization,
\* the keyword replies of step 1 and the alias loop of step 2
Query(m, l) ==
    /\ pc = "idle"
    /\ endpoint' = "query"
    /\ raw' = m
    /\ lang_in' = l
    /\ msg' = Normalize(m)
    /\ language' = EffectiveLanguage(l)
    /\ calls' = <<>>
    /\ LET branch == QueryBranch(msg')
       IN  \/ /\ branch = "greeting"
              /\ resp' = Templated(language', "greeting", NoArgs, "greeting")
              /\ location' = None
              /\ pc' = "done"
           \/ /\ branch = "definition"
              /\ resp' = Templated(language', DefinitionKey(msg'), NoArgs, DefinitionKey(msg'))
              /\ location' = None
              /\ pc' = "done"
           \/ /\ branch = "data"
              /\ location' = ResolveAlias(msg', 1)
              /\ resp' = NoResp
              /\ pc' = "lookup"
           \/ /\ branch = "fallback"
              /\ location' = None
              /\ resp' = NoResp
              /\ pc' = "llm"
    /\ UNCHANGED <<store, table, lpc>>

\* the lookup of handle_query raising HTTPException(404) without a record,
\* as get_report does
QueryLookup_NotFound ==
    /\ pc = "lookup"
    /\ endpoint = "query"
    /\ calls' = Append(calls, Call("db", FALSE))
    /\ \E rec \in get_record_by_location(store, location) :
          resp' = IF rec = <<>>
                  THEN [status |-> 404, reply |-> "Location not found",
                        location |-> None, branch |-> "not_found"]
                  ELSE Report(rec[1], language, QueryType(msg))
    /\ pc' = "done"
    /\ UNCHANGED <<store, table, lpc, endpoint, raw, msg, lang_in, language, location>>

\* handle_query from `if location:` on: the record lookup and its two replies
QueryLookup ==
    /\ pc = "lookup"
    /\ endpoint = "query"
    /\ calls' = Append(calls, Call("db", FALSE))
    /\ \E rec \in get_record_by_location(store, location) :
          resp' = IF rec = <<>>
                  THEN Templated(language, "no_data", LocationArg(location), "no_data")
                  ELSE Report(rec[1], language, QueryType(msg))
    /\ pc' = "done"
    /\ UNCHANGED <<store, table, lpc, endpoint, raw, msg, lang_in, language, location>>

\* step 3 of handle_query: the generative fallback
QueryFallback(outcome) ==
    /\ pc = "llm"
    /\ calls' = Append(calls, Call("llm", outcome.raises))
    /\ resp' = [status |-> 200, reply |-> get_llm_response(outcome),
                location |-> None, branch |-> "fallback"]
    /\ pc' = "done"
    /\ UNCHANGED <<store, table, lpc, endpoint, raw, msg, lang_in, language, location>>

\* POST /api/query_by_location, up to the reverse geocoding call; latitude and
\* longitude are only handed to the geocoder
LocationQuery(l) ==
    /\ pc = "idle"
    /\ endpoint' = "query_by_location"
    /\ lang_in' = l
    /\ language' = EffectiveLanguage(l)
    /\ calls' = <<>>
    /\ pc' = "geocode"
    /\ UNCHANGED <<store, table, lpc, raw, msg, location, resp>>

\* find_location_from_coords and the reply when it finds no location
Geocode(outcome) ==
    /\ pc = "geocode"
    /\ calls' = Append(calls, Call("geocode", outcome.raises))
    /\ location' = find_location_from_coords(outcome)
    /\ IF Truthy(location')
       THEN /\ pc' = "lookup"
            /\ resp' = resp
       ELSE /\ pc' = "done"
            /\ resp' = Templated(language, "unknown_request", NoArgs, "unknown_request")
    /\ UNCHANGED <<store, table, lpc, endpoint, raw, msg, lang_in, language>>

\* handle_location_query from `if location_name:` on
LocationLookup ==
    /\ pc = "lookup"
    /\ endpoint = "query_by_location"
    /\ calls' = Append(calls, Call("db", FALSE))
    /\ \E rec \in get_record_by_location(store, location) :
          resp' = IF rec = <<>>
                  THEN Templated(language, "no_data", LocationArg(location), "no_data")
                  ELSE Report(rec[1], language, "full")
    /\ pc' = "done"
    /\ UNCHANGED <<store, table, lpc, endpoint, raw, msg, lang_in, language, location>>

\* GET /api/report/{location}: 404 without a record, otherwise the workbook,
\* given here by the file name of its Content-Disposition header
GetReport(loc) ==
    /\ pc = "idle"
    /\ endpoint' = "report"
    /\ raw' = loc
    /\ calls' = <<Call("db", FALSE)>>
    /\ \E rec \in get_record_by_location(store, loc) :
          resp' = IF rec = <<>>
                  THEN [status |-> 404, reply |-> "Location not found",
                        location |-> None, branch |-> "not_found"]
                  ELSE [status |-> 200, reply |-> "groundwater_report_" \o loc \o ".xlsx",
                        location |-> rec[1].location, branch |-> "report"]
    /\ pc' = "done"
    /\ UNCHANGED <<store, table, lpc, msg, lang_in, language, location>>

\* the response is sent; the worker takes the next request
Return ==
    /\ pc = "done"
    /\ pc' = "idle"
    /\ endpoint' = "none"
    /\ raw' = ""
    /\ msg' = ""
    /\ lang_in' = "en"
    /\ language' = "en"
    /\ location' = None
    /\ calls' = <<>>
    /\ resp' = NoResp
    /\ UNCHANGED <<store, table, lpc>>

----------------------------------------------------------------------------
(* Specifications *)

IdleRequest ==
    /\ pc = "idle"
    /\ endpoint = "none"
    /\ raw = ""
    /\ msg = ""
    /\ lang_in = "en"
    /\ language = "en"
    /\ location = None
    /\ calls = <<>>
    /\ resp = NoResp

\* the CSV files the served database was loaded from
SampleCsvs == {
    <<>>,
    <<Row("Salem", 124, 72, 450, 105, 31, "safe for drinking", "2024-01-01", TRUE),
      Row("Karaikal", 57, 75, 380, 90, 28, "safe for drinking", "2024-01-15", TRUE),
      Row("Puducherry", 61, 71, 505, 120, 33, "safe for irrigation", "2024-01-20", TRUE)>>,
    <<Row("Salem", 124, 72, 450, 105, 31, "safe for drinking", "2024-01-01", TRUE),
      Row("salem", 98, 68, 610, 150, 42, "not recommended", "2023-12-01", TRUE),
      Row("Salem", 131, 70, 470, 110, 35, "safe for irrigation", "2024-02-01", TRUE)>> }

\* the service: the database has been loaded by a run of init.py
Init ==
    /\ \E csv \in SampleCsvs : store = LoadCsv(EmptyDb, csv)
    /\ table = store
    /\ lpc = "done"
    /\ IdleRequest

\* the inputs of a request are drawn only when a request can be taken
Next ==
    \/ pc = "idle" /\ \E m \in Messages, l \in Languages : Query(m, l)
    \/ QueryLookup
    \/ \E o \in LlmOutcomes : QueryFallback(o)
    \/ \E l \in Languages : LocationQuery(l)
    \/ \E o \in GeoOutcomes : Geocode(o)
    \/ LocationLookup
    \/ \E loc \in ReportLocations : GetReport(loc)
    \/ Return

Spec == Init /\ [][Next]_vars

\* the loader alone, on a database that does not exist yet
InitLoad ==
    /\ store = EmptyDb
    /\ table = EmptyDb
    /\ lpc = "ready"
    /\ IdleRequest

NextLoad ==
    \/ LoaderStart
    \/ \E r \in CsvRows : LoadRow(r)
    \/ \E r \in CsvRows : LoaderCrash(r)
    \/ LoaderCommit

SpecLoad == InitLoad /\ [][NextLoad]_vars

----------------------------------------------------------------------------
(* Vocabulary of the properties *)

Served == pc = "done"
QueryServed == pc = "done" /\ endpoint = "query"

\* the indices of the aliases that occur in message m
AliasHits(m) == {i \in DOMAIN location_aliases : Contains(location_aliases[i][1], m)}

HasGreeting(m) == Contains("hi", m) \/ Contains("hello", m) \/ Contains("hey", m)
HasTrigger(m) ==
    Contains("what is", m) \/ Contains("define", m) \/ Contains("meaning of", m) \/
    Contains("what does", m)

CanonicalKeys == {location_aliases[i][2] : i \in DOMAIN location_aliases}

Called(name) == \E i \in DOMAIN calls : calls[i].to = name
CallRaised(name) == \E i \in DOMAIN calls : calls[i].to = name /\ calls[i].raised

\* the records of the store a case-insensitive lookup of loc matches
Matching(loc) == {x \in store.rows : Lower(x.location) = Lower(loc)}

Text(lang, key) == Format(translations[lang][key], NoArgs)

KeywordBranches == {"greeting", "tds_def", "bod_def", "cod_def", "ph_def", "def_error"}
RecordBranches == {"level", "quality", "status", "full"}
QueryCategories == KeywordBranches \cup RecordBranches \cup {"no_data", "fallback"}

----------------------------------------------------------------------------
(* C1: every /api/query request ends in exactly one category with a reply,  *)
(* and a message that holds both a greeting token and a location alias gets *)
(* the greeting reply, never a data-query reply                             *)
C1_GreetingPriority ==
    QueryServed =>
        /\ resp.status = 200
        /\ resp.branch \in QueryCategories
        /\ (HasGreeting(msg) /\ AliasHits(msg) # {}) =>
              /\ resp.branch = "greeting"
              /\ resp.reply = Text(language, "greeting")
              /\ resp.location = None
              /\ ~Called("db")

C1_Witness ==
    /\ QueryServed
    /\ HasGreeting(msg)
    /\ AliasHits(msg) # {}
    /\ resp.branch = "greeting"

\* the terms of the definition branch with their templates, in the claimed order
DefinitionTerms == <<<<"tds", "tds_def">>, <<"bod", "bod_def">>, <<"cod", "cod_def">>, <<"ph", "ph_def">>>>

TermHits(m) == {i \in DOMAIN DefinitionTerms : Contains(DefinitionTerms[i][1], m)}

(* C2: without a greeting token, a definition trigger yields the definition *)
(* of the first term present in the order TDS, BOD, COD, pH, or the         *)
(* definition-error reply when none is present; the alias lookup and the    *)
(* fallback are not reached, whatever aliases the message holds             *)
C2_Definition ==
    (QueryServed /\ ~HasGreeting(msg) /\ HasTrigger(msg)) =>
        LET hits == TermHits(msg)
            key == IF hits = {} THEN "def_error"
                   ELSE DefinitionTerms[CHOOSE i \in hits : \A j \in hits : i <= j][2]
        IN  /\ resp.status = 200
            /\ resp.branch = key
            /\ resp.reply = Text(language, key)
            /\ resp.location = None
            /\ calls = <<>>

C2_Witness ==
    /\ QueryServed
    /\ ~HasGreeting(msg)
    /\ HasTrigger(msg)
    /\ Cardinality(TermHits(msg)) >= 2
    /\ AliasHits(msg) # {}
    /\ resp.branch \in {"tds_def", "bod_def", "cod_def"}

\* the sub-type tokens, as the claim lists them
HasLevel(m) == Contains("level", m) \/ Contains("water table", m)
HasQuality(m) ==
    Contains("ph", m) \/ Contains("tds", m) \/ Contains("cod", m) \/ Contains("bod", m) \/
    Contains("quality", m)
HasStatus(m) ==
    Contains("status", m) \/ Contains("irrigation", m) \/ Contains("drinking", m) \/
    Contains("recommended", m)

(* C3: a data query whose location has a record is answered with the        *)
(* template of exactly one sub-type: level if a level token is present,     *)
(* otherwise quality, otherwise status, otherwise the full report           *)
C3_SubType ==
    (QueryServed /\ Called("db") /\ Matching(location) # {}) =>
        LET sub == CASE HasLevel(msg) -> "level"
                     [] ~HasLevel(msg) /\ HasQuality(msg) -> "quality"
                     [] ~HasLevel(msg) /\ ~HasQuality(msg) /\ HasStatus(msg) -> "status"
                     [] OTHER -> "full"
        IN  /\ resp.status = 200
            /\ resp.branch = sub
            /\ \E rec \in Matching(location) :
                  /\ resp.reply = generate_reply(rec, language, sub)
                  /\ resp.location = rec.location
                  /\ \A other \in RecordBranches \ {sub} :
                        resp.reply # generate_reply(rec, language, other)

C3_Witness ==
    /\ QueryServed
    /\ Called("db")
    /\ Matching(location) # {}
    /\ HasLevel(msg) /\ HasQuality(msg) /\ HasStatus(msg)
    /\ resp.branch = "level"

\* the request has passed the alias loop of handle_query
AliasLoopRan ==
    /\ endpoint = "query"
    /\ pc \in {"lookup", "llm", "done"}
    /\ resp.branch \notin KeywordBranches

(* C4: once the alias loop of handle_query has run, location is the         *)
(* canonical location of the first alias, in the table's order, that is a   *)
(* substring of the message, and None exactly when no alias is              *)
C4_FirstAlias ==
    AliasLoopRan =>
        LET hits == AliasHits(msg)
        IN  /\ (location = None) <=> (hits = {})
            /\ hits # {} =>
                  location = location_aliases[CHOOSE i \in hits : \A j \in hits : i <= j][2]

C4_Witness ==
    /\ AliasLoopRan
    /\ \E i, j \in AliasHits(msg) : location_aliases[i][2] # location_aliases[j][2]
    /\ location # None

(* C5: on both query endpoints a resolved location without a record is      *)
(* answered 200 with the localized no-data template filled with the         *)
(* canonical location key, and the response has no location field           *)
C5_NoData ==
    (Served /\ endpoint \in {"query", "query_by_location"} /\ Truthy(location)
        /\ Matching(location) = {}) =>
        /\ location \in CanonicalKeys
        /\ resp.status = 200
        /\ resp.branch = "no_data"
        /\ resp.reply = Format(translations[language].no_data, LocationArg(location))
        /\ Contains(location, resp.reply)
        /\ resp.location = None

C5_Witness ==
    /\ QueryServed
    /\ msg = "status of kumbakonam"
    /\ language = "en"
    /\ resp.reply = "No data found for location: Kumbakonam Town"

\* the replies of the English table for a category, over the matching records
EnglishReply(branch) ==
    CASE branch \in KeywordBranches \cup {"unknown_request"} ->
            {Format(translations_en[branch], NoArgs)}
      [] branch = "no_data" ->
            {Format(translations_en.no_data, LocationArg(location))}
      [] branch \in RecordBranches ->
            {generate_reply(rec, "en", branch) : rec \in Matching(location)}
      [] OTHER -> {}

(* C6: a request whose language code is not in the translation table        *)
(* completes without error, and in every templated category its reply is    *)
(* the reply of the English table                                           *)
C6_UnknownLanguage ==
    (Served /\ endpoint \in {"query", "query_by_location"}
        /\ lang_in \notin {"en", "ta", "te"}) =>
        /\ resp.status = 200
        /\ resp.branch # "fallback" => resp.reply \in EnglishReply(resp.branch)

C6_Witness ==
    /\ QueryServed
    /\ lang_in = "fr"
    /\ resp.branch = "quality"
    /\ resp.reply \in EnglishReply("quality")

C8_CaseInsensitiveUnique ==
    \A x, y \in store.rows : Lower(x.location) = Lower(y.location) => x = y

(* C9: within one /api/query request a greeting or definition reply is      *)
(* given without a record lookup or a generative call; a record lookup      *)
(* happens only after an alias has resolved a location; the generative      *)
(* service is called only for a message without greeting token, definition  *)
(* trigger and alias                                                        *)
C9_StepOrder ==
    endpoint = "query" =>
        /\ resp.branch \in KeywordBranches => calls = <<>>
        /\ Called("db") => (Truthy(location) /\ AliasHits(msg) # {})
        /\ (pc = "llm" \/ Called("llm")) =>
              (~HasGreeting(msg) /\ ~HasTrigger(msg) /\ AliasHits(msg) = {})
        /\ pc = "lookup" => (~HasGreeting(msg) /\ ~HasTrigger(msg))

C9_Witness ==
    /\ QueryServed
    /\ Called("llm")
    /\ ~Called("db")
    /\ resp.branch = "fallback"

(* C10: a message that is exactly an alias of the table is classified as a  *)
(* data query and resolves to the canonical location paired with that alias *)
C10_EveryAliasUsable ==
    \A i \in DOMAIN location_aliases :
        (endpoint = "query" /\ pc # "idle" /\ msg = location_aliases[i][1]) =>
            /\ resp.branch \notin KeywordBranches
            /\ location = location_aliases[i][2]

====
